---------------------------- MODULE Spec2Model ----------------------------
(***************************************************************************)
(* A state-machine model of the useCamera hook (src/src/index.js): the     *)
(* React state and refs of the hook, the host objects it drives (media     *)
(* streams, recorders, object URLs), the hook's operations and the host's  *)
(* asynchronous completions.                                               *)
(*                                                                         *)
(* The state variables hold the values of the latest render: what the      *)
(* consumer sees and what the closures of the handlers read.  A state      *)
(* setter only queues its value (pending); React 18 renders the queued     *)
(* values in a later task (Render), and other handlers and host callbacks  *)
(* may run in between.  When capturedImages or recordedVideoUrl changed in *)
(* that render, the cleanup of the effect of lines 417-427 is owed: it     *)
(* runs in a later task again (EffectCleanup), with the values of the      *)
(* previous render, and what it sets is rendered after that.  Unmounting   *)
(* detaches the video element at once (Dispose) and owes the cleanup of    *)
(* the last render's effect in the same way.  An asynchronous continuation *)
(* keeps the values its closure captured; refs are read and written at     *)
(* once.                                                                   *)
(*                                                                         *)
(* The video element is taken to be attached (videoRef.current non-null)   *)
(* while the component is mounted, and every acquired stream to carry one  *)
(* video track that reports its device id, as the README's component and   *)
(* the requested constraints (video always asked for) give.                *)
(***************************************************************************)
EXTENDS Integers, Sequences, FiniteSets, TLC

\* ------------------------------------------------------------------ bounds
\* Streams the host hands out over one lifetime.
MaxStreams == 2
\* Recorders created over one lifetime.
MaxRecorders == 2
\* Chunk-available events the recorders emit over one lifetime.
MaxChunks == 2
\* Display handles derived over one lifetime.
MaxUrls == 2
\* Largest wall-clock reading.
MaxClock == 1
\* Revocations counted per handle (the count saturates here).
RevokeCap == 2
\* getDevices calls in flight at one time.
MaxEnumCalls == 2

\* --------------------------------------------------------------- constants
Null == "null"

\* 0 stands for a null reference to a stream, recorder or handle.
NoRef == 0

VARIABLES
  \* React state (lines 4-11), as of the latest render
  isStreaming, isRecording, error, devices, selectedDeviceId,
  recordedChunks, capturedImages, recordedVideoUrl,
  \* the values the state setters queued for the next render
  pending,
  \* refs (lines 13-17); videoSrc is videoRef.current.srcObject
  streamRef, mediaRecorderRef, recordedMimeTypeRef, videoSrc,
  \* host objects: streams handed out, recorders created, handles derived
  streams, recorders, urls,
  \* control: startCamera calls in flight, the getDevices calls in flight,
  \* pending encodes, how the last settled captureImage promise settled
  calls, enumCalls, pendingBlobs, captureOutcome,
  \* component unmounted; the effect cleanups React owes (at most one): the
  \* capturedImages and recordedVideoUrl the closure of each holds
  disposed, cleanup

reactState == <<isStreaming, isRecording, error, devices, selectedDeviceId,
                recordedChunks, capturedImages, recordedVideoUrl, pending>>
refs == <<streamRef, mediaRecorderRef, recordedMimeTypeRef, videoSrc>>
hostObjects == <<streams, recorders, urls>>
control == <<calls, enumCalls, pendingBlobs, captureOutcome, disposed, cleanup>>
vars == <<reactState, refs, hostObjects, control>>

\* ------------------------------------------------------- strings as text
\* Device labels and keywords are sequences of characters, so that
\* toLowerCase and includes are computed rather than assumed.  A character
\* outside printable ASCII is written by its code point ("U+00C9").
\*
\* String.prototype.toLowerCase on the alphabet of the model: Basic Latin,
\* Latin-1 Supplement, Latin Extended-A, Cyrillic U+0400-U+042F and the signs
\* U+2126, U+212A, U+212B.  Every cased letter of that alphabet is listed
\* with its lower-case mapping; U+0130 maps to two characters.  The letters
\* whose mapping is a Basic Latin letter are A-Z, U+212A (k) and U+0130
\* (i followed by U+0307), so no other character can complete a keyword.
LowerCase ==
  ("A" :> <<"a">>) @@ ("B" :> <<"b">>) @@ ("C" :> <<"c">>)
  @@ ("D" :> <<"d">>) @@ ("E" :> <<"e">>) @@ ("F" :> <<"f">>)
  @@ ("G" :> <<"g">>) @@ ("H" :> <<"h">>) @@ ("I" :> <<"i">>)
  @@ ("J" :> <<"j">>) @@ ("K" :> <<"k">>) @@ ("L" :> <<"l">>)
  @@ ("M" :> <<"m">>) @@ ("N" :> <<"n">>) @@ ("O" :> <<"o">>)
  @@ ("P" :> <<"p">>) @@ ("Q" :> <<"q">>) @@ ("R" :> <<"r">>)
  @@ ("S" :> <<"s">>) @@ ("T" :> <<"t">>) @@ ("U" :> <<"u">>)
  @@ ("V" :> <<"v">>) @@ ("W" :> <<"w">>) @@ ("X" :> <<"x">>)
  @@ ("Y" :> <<"y">>) @@ ("Z" :> <<"z">>) @@ ("U+00C0" :> <<"U+00E0">>)
  @@ ("U+00C1" :> <<"U+00E1">>) @@ ("U+00C2" :> <<"U+00E2">>) @@ ("U+00C3" :> <<"U+00E3">>)
  @@ ("U+00C4" :> <<"U+00E4">>) @@ ("U+00C5" :> <<"U+00E5">>) @@ ("U+00C6" :> <<"U+00E6">>)
  @@ ("U+00C7" :> <<"U+00E7">>) @@ ("U+00C8" :> <<"U+00E8">>) @@ ("U+00C9" :> <<"U+00E9">>)
  @@ ("U+00CA" :> <<"U+00EA">>) @@ ("U+00CB" :> <<"U+00EB">>) @@ ("U+00CC" :> <<"U+00EC">>)
  @@ ("U+00CD" :> <<"U+00ED">>) @@ ("U+00CE" :> <<"U+00EE">>) @@ ("U+00CF" :> <<"U+00EF">>)
  @@ ("U+00D0" :> <<"U+00F0">>) @@ ("U+00D1" :> <<"U+00F1">>) @@ ("U+00D2" :> <<"U+00F2">>)
  @@ ("U+00D3" :> <<"U+00F3">>) @@ ("U+00D4" :> <<"U+00F4">>) @@ ("U+00D5" :> <<"U+00F5">>)
  @@ ("U+00D6" :> <<"U+00F6">>) @@ ("U+00D8" :> <<"U+00F8">>) @@ ("U+00D9" :> <<"U+00F9">>)
  @@ ("U+00DA" :> <<"U+00FA">>) @@ ("U+00DB" :> <<"U+00FB">>) @@ ("U+00DC" :> <<"U+00FC">>)
  @@ ("U+00DD" :> <<"U+00FD">>) @@ ("U+00DE" :> <<"U+00FE">>) @@ ("U+0100" :> <<"U+0101">>)
  @@ ("U+0102" :> <<"U+0103">>) @@ ("U+0104" :> <<"U+0105">>) @@ ("U+0106" :> <<"U+0107">>)
  @@ ("U+0108" :> <<"U+0109">>) @@ ("U+010A" :> <<"U+010B">>) @@ ("U+010C" :> <<"U+010D">>)
  @@ ("U+010E" :> <<"U+010F">>) @@ ("U+0110" :> <<"U+0111">>) @@ ("U+0112" :> <<"U+0113">>)
  @@ ("U+0114" :> <<"U+0115">>) @@ ("U+0116" :> <<"U+0117">>) @@ ("U+0118" :> <<"U+0119">>)
  @@ ("U+011A" :> <<"U+011B">>) @@ ("U+011C" :> <<"U+011D">>) @@ ("U+011E" :> <<"U+011F">>)
  @@ ("U+0120" :> <<"U+0121">>) @@ ("U+0122" :> <<"U+0123">>) @@ ("U+0124" :> <<"U+0125">>)
  @@ ("U+0126" :> <<"U+0127">>) @@ ("U+0128" :> <<"U+0129">>) @@ ("U+012A" :> <<"U+012B">>)
  @@ ("U+012C" :> <<"U+012D">>) @@ ("U+012E" :> <<"U+012F">>) @@ ("U+0130" :> <<"i", "U+0307">>)
  @@ ("U+0132" :> <<"U+0133">>) @@ ("U+0134" :> <<"U+0135">>) @@ ("U+0136" :> <<"U+0137">>)
  @@ ("U+0139" :> <<"U+013A">>) @@ ("U+013B" :> <<"U+013C">>) @@ ("U+013D" :> <<"U+013E">>)
  @@ ("U+013F" :> <<"U+0140">>) @@ ("U+0141" :> <<"U+0142">>) @@ ("U+0143" :> <<"U+0144">>)
  @@ ("U+0145" :> <<"U+0146">>) @@ ("U+0147" :> <<"U+0148">>) @@ ("U+014A" :> <<"U+014B">>)
  @@ ("U+014C" :> <<"U+014D">>) @@ ("U+014E" :> <<"U+014F">>) @@ ("U+0150" :> <<"U+0151">>)
  @@ ("U+0152" :> <<"U+0153">>) @@ ("U+0154" :> <<"U+0155">>) @@ ("U+0156" :> <<"U+0157">>)
  @@ ("U+0158" :> <<"U+0159">>) @@ ("U+015A" :> <<"U+015B">>) @@ ("U+015C" :> <<"U+015D">>)
  @@ ("U+015E" :> <<"U+015F">>) @@ ("U+0160" :> <<"U+0161">>) @@ ("U+0162" :> <<"U+0163">>)
  @@ ("U+0164" :> <<"U+0165">>) @@ ("U+0166" :> <<"U+0167">>) @@ ("U+0168" :> <<"U+0169">>)
  @@ ("U+016A" :> <<"U+016B">>) @@ ("U+016C" :> <<"U+016D">>) @@ ("U+016E" :> <<"U+016F">>)
  @@ ("U+0170" :> <<"U+0171">>) @@ ("U+0172" :> <<"U+0173">>) @@ ("U+0174" :> <<"U+0175">>)
  @@ ("U+0176" :> <<"U+0177">>) @@ ("U+0178" :> <<"U+00FF">>) @@ ("U+0179" :> <<"U+017A">>)
  @@ ("U+017B" :> <<"U+017C">>) @@ ("U+017D" :> <<"U+017E">>) @@ ("U+0400" :> <<"U+0450">>)
  @@ ("U+0401" :> <<"U+0451">>) @@ ("U+0402" :> <<"U+0452">>) @@ ("U+0403" :> <<"U+0453">>)
  @@ ("U+0404" :> <<"U+0454">>) @@ ("U+0405" :> <<"U+0455">>) @@ ("U+0406" :> <<"U+0456">>)
  @@ ("U+0407" :> <<"U+0457">>) @@ ("U+0408" :> <<"U+0458">>) @@ ("U+0409" :> <<"U+0459">>)
  @@ ("U+040A" :> <<"U+045A">>) @@ ("U+040B" :> <<"U+045B">>) @@ ("U+040C" :> <<"U+045C">>)
  @@ ("U+040D" :> <<"U+045D">>) @@ ("U+040E" :> <<"U+045E">>) @@ ("U+040F" :> <<"U+045F">>)
  @@ ("U+0410" :> <<"U+0430">>) @@ ("U+0411" :> <<"U+0431">>) @@ ("U+0412" :> <<"U+0432">>)
  @@ ("U+0413" :> <<"U+0433">>) @@ ("U+0414" :> <<"U+0434">>) @@ ("U+0415" :> <<"U+0435">>)
  @@ ("U+0416" :> <<"U+0436">>) @@ ("U+0417" :> <<"U+0437">>) @@ ("U+0418" :> <<"U+0438">>)
  @@ ("U+0419" :> <<"U+0439">>) @@ ("U+041A" :> <<"U+043A">>) @@ ("U+041B" :> <<"U+043B">>)
  @@ ("U+041C" :> <<"U+043C">>) @@ ("U+041D" :> <<"U+043D">>) @@ ("U+041E" :> <<"U+043E">>)
  @@ ("U+041F" :> <<"U+043F">>) @@ ("U+0420" :> <<"U+0440">>) @@ ("U+0421" :> <<"U+0441">>)
  @@ ("U+0422" :> <<"U+0442">>) @@ ("U+0423" :> <<"U+0443">>) @@ ("U+0424" :> <<"U+0444">>)
  @@ ("U+0425" :> <<"U+0445">>) @@ ("U+0426" :> <<"U+0446">>) @@ ("U+0427" :> <<"U+0447">>)
  @@ ("U+0428" :> <<"U+0448">>) @@ ("U+0429" :> <<"U+0449">>) @@ ("U+042A" :> <<"U+044A">>)
  @@ ("U+042B" :> <<"U+044B">>) @@ ("U+042C" :> <<"U+044C">>) @@ ("U+042D" :> <<"U+044D">>)
  @@ ("U+042E" :> <<"U+044E">>) @@ ("U+042F" :> <<"U+044F">>) @@ ("U+2126" :> <<"U+03C9">>)
  @@ ("U+212A" :> <<"k">>) @@ ("U+212B" :> <<"U+00E5">>)
\* The lower-case mapping of one character.
lowerOf(c) == IF c \in DOMAIN LowerCase THEN LowerCase[c] ELSE <<c>>

RECURSIVE toLowerCase(_)
toLowerCase(s) ==
  IF s = << >> THEN << >> ELSE lowerOf(Head(s)) \o toLowerCase(Tail(s))

includes(s, kw) ==
  \E i \in 0..(Len(s) - Len(kw)) : SubSeq(s, i + 1, i + Len(kw)) = kw

frontCameraKeywords ==
  << <<"f","r","o","n","t">>, <<"u","s","e","r">>,
     <<"f","a","c","i","n","g"," ","u","s","e","r">>,
     <<"s","e","l","f","i","e">> >>
backCameraKeywords ==
  << <<"b","a","c","k">>, <<"r","e","a","r">>,
     <<"e","n","v","i","r","o","n","m","e","n","t">>,
     <<"f","a","c","i","n","g"," ","e","n","v","i","r","o","n","m","e","n","t">> >>

\* keywords.some(keyword => label.includes(keyword))
someIncludes(keywords, label) ==
  \E k \in DOMAIN keywords : includes(label, keywords[k])

\* ------------------------------------------------------------ host devices
LabelFront == <<"F","r","o","n","t"," ","C","a","m","e","r","a">>
LabelBack == <<"b","a","c","k"," ","c","a","m","e","r","a">>
LabelWebcam == <<"I","n","t","e","g","r","a","t","e","d"," ","W","e","b","c","a","m">>
\* 'BAC' followed by the Kelvin sign, which lower-cases to 'back'
LabelKelvin == <<"B","A","C","U+212A">>
\* 'SELF', U+0130, 'E': lower-cases to 'selfi', U+0307, 'e'
LabelDotted == <<"S","E","L","F","U+0130","E">>
\* 'CAM', U+00C9, 'RA R', U+00DC, 'CK'
LabelAccent == <<"C","A","M","U+00C9","R","A"," ","R","U+00DC","C","K">>
NoLabel == << >>

\* The device ids of the cameras of the host.
DeviceIds == {"A", "B"}

\* The id the host reports for every device before permission is granted.
NoId == ""

VideoInput(id, label) == [deviceId |-> id, label |-> label, kind |-> "videoinput"]
AudioInput(id) == [deviceId |-> id, label |-> NoLabel, kind |-> "audioinput"]

\* Lists navigator.mediaDevices.enumerateDevices() may resolve with: all kinds
\* of device, in host order, with or without labels, with or without the
\* device in use, the list of a host that has not granted permission (empty
\* ids and labels) and that of a host that reports an empty id with a label.
EnumResults ==
  { << AudioInput("M") >>,
    << VideoInput("A", LabelFront), AudioInput("M"), VideoInput("B", LabelBack) >>,
    << VideoInput("B", LabelWebcam) >>,
    << VideoInput(NoId, NoLabel), AudioInput(NoId) >>,
    << VideoInput(NoId, LabelFront), VideoInput("B", LabelBack) >> }

\* err.name of a rejected getUserMedia, and of a rejected video.play()
AcquireErrors ==
  {"NotAllowedError", "NotFoundError", "NotReadableError", "OverconstrainedError",
   "AbortError"}
PlayErrors == {"AbortError", "NotAllowedError"}

\* err.message the host gives with each err.name
HostMessage(name) ==
  CASE name = "NotAllowedError" -> "Permission denied"
    [] name = "NotFoundError" -> "Requested device not found"
    [] name = "NotReadableError" -> "Could not start video source"
    [] name = "OverconstrainedError" -> "Constraints could not be satisfied"
    [] name = "AbortError" -> "The operation was aborted"
    [] name = "NotSupportedError" -> "The operation is not supported"
    [] OTHER -> "Unknown error"

\* Sets of formats MediaRecorder.isTypeSupported accepts on the hosts considered
SupportedTypeSets == { {}, {"video/webm;codecs=vp8", "video/webm"} }

\* navigator.userAgent matches the mobile pattern (lines 53, 356) or not
UserAgents == BOOLEAN

\* Sizes of the chunks a recorder emits (0: a zero-length chunk)
ChunkSizes == {0, 1}

\* What the host does with a recorder startRecording builds: it constructs
\* and starts it, the constructor throws, or start() throws (lines 201, 233).
RecorderOutcomes == {"started", "newThrows", "startThrows"}

\* err.name of the exception of the constructor or of start()
RecorderThrows == "NotSupportedError"

\* event.error.name of a recorder's error event; NoError: the event carries
\* no error (event.error is undefined, line 229)
NoError == "none"
RecorderErrors == {"AbortError", NoError}

\* The click event React passes to a handler given as onClick
\* (README: onClick={isStreaming ? stopCamera : startCamera}): an object, and
\* as a deviceId truthy and the id of no device.
EventObject == "[object]"

\* ------------------------------------------------------------ small helpers
Undefined == "undefined"

RemoveAt(s, i) == SubSeq(s, 1, i - 1) \o SubSeq(s, i + 1, Len(s))

Min(a, b) == IF a < b THEN a ELSE b

\* !x for a device id: null and the empty string are falsy.
Falsy(x) == x = Null \/ x = ""

\* The state of the latest render.
rendered ==
  [isStreaming |-> isStreaming, isRecording |-> isRecording, error |-> error,
   devices |-> devices, selectedDeviceId |-> selectedDeviceId,
   recordedChunks |-> recordedChunks, capturedImages |-> capturedImages,
   recordedVideoUrl |-> recordedVideoUrl]

\* Every value a setter queued has been rendered.
Settled == pending = rendered

\* A state setter called after the component unmounted changes nothing.
Set(old, new) == IF disposed THEN old ELSE new

\* stream.getTracks().forEach(track => track.stop())
StopTracks(ss, s) == IF s = NoRef THEN ss ELSE [ss EXCEPT ![s].live = FALSE]

\* URL.revokeObjectURL(h)
Revoke(u, h) == [u EXCEPT ![h] = Min(@ + 1, RevokeCap)]

\* images.forEach(image => URL.revokeObjectURL(image.url))
RECURSIVE RevokeImages(_, _)
RevokeImages(u, images) ==
  IF images = << >> THEN u
  ELSE RevokeImages(Revoke(u, Head(images).url), Tail(images))

\* The cleanup of the effect, for the handles: the images and the video URL of
\* the render the effect belongs to are revoked.
CleanupUrls(u, images, videoUrl) ==
  LET u1 == RevokeImages(u, images)
  IN IF videoUrl # NoRef THEN Revoke(u1, videoUrl) ELSE u1

\* The effect's dependencies changed between two renders.
DepsChanged(images, videoUrl, images2, videoUrl2) ==
  images2 # images \/ videoUrl2 # videoUrl

\* ------------------------------------------------------------- constraints
Range(ideal, max) == [ideal |-> ideal, max |-> max]
NoRange == Range(0, 0)

\* getConstraints (lines 42-60): the device is required when deviceId is
\* truthy (line 45)
getConstraints(deviceId, mobile) ==
  LET video == [deviceId |-> IF ~Falsy(deviceId) THEN deviceId ELSE Undefined,
                width |-> Range(1280, 1920),
                height |-> Range(720, 1080),
                frameRate |-> Range(30, 60)]
  IN [video |-> IF mobile
                THEN [video EXCEPT !.width = Range(720, 1280),
                                   !.height = Range(480, 720),
                                   !.frameRate = Range(24, 30)]
                ELSE video,
      audio |-> TRUE]

\* { video: true, audio: true }: no constraint on the video track
BasicConstraints ==
  [video |-> [deviceId |-> Undefined, width |-> NoRange, height |-> NoRange,
              frameRate |-> NoRange],
   audio |-> TRUE]

\* No request is pending.
NoRequest == [BasicConstraints EXCEPT !.audio = FALSE]

\* The devices a request with these constraints can be granted on.
Grantable(c) ==
  IF c.video.deviceId = Undefined THEN DeviceIds ELSE {c.video.deviceId}

\* ------------------------------------------------------------ error messages
AccessPrefix == "Failed to access camera: "

\* The message of startCamera's catch for a first failure named `name`.
AccessMessage(name) ==
  CASE name = "NotAllowedError" ->
         AccessPrefix \o "Camera access denied. Please allow camera permissions."
    [] name = "NotFoundError" -> AccessPrefix \o "No camera found on this device."
    [] name = "NotReadableError" ->
         AccessPrefix \o "Camera is already in use by another application."
    [] name = "OverconstrainedError" ->
         AccessPrefix \o "Camera constraints not supported. Trying with basic settings..."
    [] OTHER -> AccessPrefix \o HostMessage(name)

BasicFailedMessage ==
  AccessMessage("OverconstrainedError") \o " Basic settings also failed."

DevicesFailedMessage == "Failed to get camera devices: " \o HostMessage("NotSupportedError")

\* The message of startRecording's catch (line 239)
StartFailedMessage == "Failed to start recording: " \o HostMessage(RecorderThrows)

\* The message of the recorder's onerror (line 229): event.error?.message is
\* undefined when the event carries no error
RecordingErrorMessage(name) ==
  "Recording error: " \o (IF name = NoError THEN Undefined ELSE HostMessage(name))

\* The message of captureImage's catch (line 298)
CaptureFailedMessage == "Failed to capture image: " \o HostMessage("AbortError")

\* ---------------------------------------------------------------- initial
\* useState's initial values (lines 4-11)
InitialState ==
  [isStreaming |-> FALSE, isRecording |-> FALSE, error |-> Null,
   devices |-> << >>, selectedDeviceId |-> Null, recordedChunks |-> << >>,
   capturedImages |-> << >>, recordedVideoUrl |-> NoRef]

Init ==
  /\ isStreaming = FALSE
  /\ isRecording = FALSE
  /\ error = Null
  /\ devices = << >>
  /\ selectedDeviceId = Null
  /\ recordedChunks = << >>
  /\ capturedImages = << >>
  /\ recordedVideoUrl = NoRef
  /\ pending = InitialState
  /\ streamRef = NoRef
  /\ mediaRecorderRef = NoRef
  /\ recordedMimeTypeRef = Null
  /\ videoSrc = NoRef
  /\ streams = << >>
  /\ recorders = << >>
  /\ urls = << >>
  /\ calls = << >>
  /\ enumCalls = << >>
  /\ pendingBlobs = 0
  /\ captureOutcome = "none"
  /\ disposed = FALSE
  /\ cleanup = << >>

\* The latest render, unchanged by a step.
sameRender ==
  UNCHANGED <<isStreaming, isRecording, error, devices, selectedDeviceId,
              recordedChunks, capturedImages, recordedVideoUrl>>

\* ------------------------------------------------------------- enumeration
\* A getDevices that stores the enumeration unfiltered.
videoDevices_All(list) == list

\* devices.filter(device => device.kind === 'videoinput')
videoDevices(list) == SelectSeq(list, LAMBDA d : d.kind = "videoinput")

\* getDevices after enumerateDevices resolved with `list` (lines 26-31): the
\* first entry is selected when the closure's selectedDeviceId is falsy
\* (noneSelected: the !selectedDeviceId of line 29).
getDevicesSelected(noneSelected, list, cur) ==
  IF noneSelected /\ Len(videoDevices(list)) > 0
  THEN videoDevices(list)[1].deviceId
  ELSE cur

\* getDevices(): suspended at enumerateDevices (line 22), holding the
\* selectedDeviceId of the render it was created in; earlier calls may still
\* be in flight
GetDevices ==
  /\ ~disposed
  /\ Len(enumCalls) < MaxEnumCalls
  /\ enumCalls' = Append(enumCalls, Falsy(selectedDeviceId))
  /\ UNCHANGED <<reactState, refs, hostObjects, calls, pendingBlobs, captureOutcome,
                 disposed, cleanup>>

\* enumerateDevices resolved for the k-th standalone getDevices in flight
\* (lines 23-33)
GetDevicesResolve(k, list) ==
  /\ k \in DOMAIN enumCalls
  /\ enumCalls' = RemoveAt(enumCalls, k)
  /\ pending' =
       Set(pending,
           [pending EXCEPT
              !.devices = videoDevices(list),
              !.selectedDeviceId = getDevicesSelected(enumCalls[k], list, @)])
  /\ sameRender
  /\ UNCHANGED <<refs, hostObjects, calls, pendingBlobs, captureOutcome, disposed, cleanup>>

\* enumerateDevices rejected for the k-th standalone getDevices (lines 34-38)
GetDevicesReject(k) ==
  /\ k \in DOMAIN enumCalls
  /\ enumCalls' = RemoveAt(enumCalls, k)
  /\ pending' = Set(pending, [pending EXCEPT !.error = DevicesFailedMessage])
  /\ sameRender
  /\ UNCHANGED <<refs, hostObjects, calls, pendingBlobs, captureOutcome, disposed, cleanup>>

\* --------------------------------------------------------------- startCamera
\* A startCamera call suspended at an await: where (pc), which acquisition
\* (attempt), the constraints of the pending request, whether the
\* selectedDeviceId its getDevices closure holds is falsy, the stream it was
\* handed and the deviceId that stream's video track reports.
Call(pc, attempt, constraints, noneSelected, stream, deviceId) ==
  [pc |-> pc, attempt |-> attempt, constraints |-> constraints,
   noneSelected |-> noneSelected, stream |-> stream, deviceId |-> deviceId]

\* startCamera calls that may still be handed a stream.
Acquiring == {i \in DOMAIN calls : calls[i].pc = "acquire"}

\* A startCamera that acquires without stopping the held stream's tracks.
startCameraStreams_NoTeardown == streams

\* The streams whose tracks startCamera stops before it acquires (lines 67-69)
startCameraStreams == StopTracks(streams, streamRef)

\* startCamera(deviceId) up to its first await (lines 63-74): the error is
\* cleared, the tracks of the held stream are stopped (the ref is kept) and
\* the acquisition is requested.
startCamera(deviceId, mobile) ==
  /\ Len(streams) + Cardinality(Acquiring) < MaxStreams
  /\ pending' = [pending EXCEPT !.error = Null]
  /\ streams' = startCameraStreams
  /\ calls' = Append(calls, Call("acquire", 1, getConstraints(deviceId, mobile),
                                 Falsy(selectedDeviceId), NoRef, Null))
  /\ sameRender
  /\ UNCHANGED <<refs, recorders, urls, enumCalls, pendingBlobs, captureOutcome,
                 disposed, cleanup>>

\* The consumer calls startCamera() (deviceId defaults to selectedDeviceId),
\* startCamera(d), or gives startCamera as a click handler, which React calls
\* with the click event.
StartCamera(mobile) ==
  /\ ~disposed
  /\ \E d \in DeviceIds \cup {selectedDeviceId, EventObject} : startCamera(d, mobile)

\* Where a call goes once it holds its stream: play() is awaited when the
\* video element is attached (lines 79-85), else getDevices().
afterAcquire == IF disposed THEN "enum" ELSE "play"

\* getUserMedia resolved (lines 74-84 and 116-126): the stream is held and
\* bound to the video element.
AcquireResolve(i, d) ==
  /\ i \in DOMAIN calls
  /\ calls[i].pc = "acquire"
  /\ d \in Grantable(calls[i].constraints)
  /\ streams' = Append(streams, [live |-> TRUE])
  /\ streamRef' = Len(streams) + 1
  /\ videoSrc' = IF disposed THEN videoSrc ELSE Len(streams) + 1
  /\ calls' = [calls EXCEPT ![i].pc = afterAcquire, ![i].stream = Len(streams) + 1,
                            ![i].deviceId = d, ![i].constraints = NoRequest]
  /\ UNCHANGED <<reactState, mediaRecorderRef, recordedMimeTypeRef, recorders, urls,
                 enumCalls, pendingBlobs, captureOutcome, disposed, cleanup>>

\* The message the catch of startCamera sets (line 149).
catchError(i, name) ==
  IF calls[i].attempt = 1 THEN AccessMessage(name) ELSE BasicFailedMessage

\* The first acquisition's failure leads to the fallback request (lines 113-119).
retries(i, name) == calls[i].attempt = 1 /\ name = "OverconstrainedError"

\* getUserMedia rejected with err.name = name (lines 99-150)
AcquireReject(i, name) ==
  /\ i \in DOMAIN calls
  /\ calls[i].pc = "acquire"
  /\ IF retries(i, name)
     THEN /\ calls' = [calls EXCEPT ![i].attempt = calls[i].attempt + 1,
                                    ![i].constraints = BasicConstraints]
          /\ pending' = pending
     ELSE /\ calls' = RemoveAt(calls, i)
          /\ pending' = Set(pending, [pending EXCEPT !.error = catchError(i, name)])
  /\ sameRender
  /\ UNCHANGED <<refs, hostObjects, enumCalls, pendingBlobs, captureOutcome, disposed, cleanup>>

\* video.play() resolved (lines 84, 126): getDevices() is awaited
PlayResolve(i) ==
  /\ i \in DOMAIN calls
  /\ calls[i].pc = "play"
  /\ calls' = [calls EXCEPT ![i].pc = "enum"]
  /\ UNCHANGED <<reactState, refs, hostObjects, enumCalls, pendingBlobs,
                 captureOutcome, disposed, cleanup>>

\* video.play() rejected: the catch of the attempt runs with the stream held
\* (lines 99-112, 145-149 for the first attempt; 141-149 for the fallback)
PlayReject(i, name) ==
  /\ i \in DOMAIN calls
  /\ calls[i].pc = "play"
  /\ calls' = RemoveAt(calls, i)
  /\ pending' = Set(pending, [pending EXCEPT !.error = catchError(i, name)])
  /\ sameRender
  /\ UNCHANGED <<refs, hostObjects, enumCalls, pendingBlobs, captureOutcome, disposed, cleanup>>

\* The deviceId the stream's video track reports (lines 91-92, 132-133).
actualDeviceId(i) == calls[i].deviceId

\* The selection startCamera leaves (lines 93-95, 134-136): the track's device
\* id when it is truthy, and so set after the default getDevices selected
\* (line 30); else what getDevices left (sel).
startCameraSelected(i, sel) ==
  IF ~Falsy(actualDeviceId(i)) THEN actualDeviceId(i) ELSE sel

\* setIsStreaming(true) (lines 98, 139)
startCameraStreaming == TRUE

\* getDevices() inside startCamera returned the enumeration `list`; the
\* selected device becomes the track's and the hook is streaming
\* (lines 88-98, 130-140)
EnumResolve(i, list) ==
  /\ i \in DOMAIN calls
  /\ calls[i].pc = "enum"
  /\ pending' =
       Set(pending,
           [pending EXCEPT
              !.devices = videoDevices(list),
              !.selectedDeviceId =
                 startCameraSelected(i, getDevicesSelected(calls[i].noneSelected, list, @)),
              !.isStreaming = startCameraStreaming])
  /\ calls' = RemoveAt(calls, i)
  /\ sameRender
  /\ UNCHANGED <<refs, hostObjects, enumCalls, pendingBlobs, captureOutcome, disposed, cleanup>>

\* getDevices() inside startCamera caught a failed enumeration (lines 34-38)
\* and returned []; startCamera goes on (lines 90-98)
EnumReject(i) ==
  /\ i \in DOMAIN calls
  /\ calls[i].pc = "enum"
  /\ pending' =
       Set(pending,
           [pending EXCEPT
              !.error = DevicesFailedMessage,
              !.selectedDeviceId = startCameraSelected(i, @),
              !.isStreaming = TRUE])
  /\ calls' = RemoveAt(calls, i)
  /\ sameRender
  /\ UNCHANGED <<refs, hostObjects, enumCalls, pendingBlobs, captureOutcome, disposed, cleanup>>

\* ---------------------------------------------------------------- stopCamera
\* A stopCamera that drops the stream without stopping its tracks.
stopCameraStreams_TracksKept == streams

\* The streams after stopCamera stopped the held stream's tracks (lines 155-156)
stopCameraStreams == StopTracks(streams, streamRef)

\* stopCamera (lines 154-166)
StopCamera ==
  /\ ~disposed
  /\ streams' = stopCameraStreams
  /\ streamRef' = NoRef
  /\ videoSrc' = NoRef
  /\ pending' = [pending EXCEPT !.isStreaming = FALSE, !.isRecording = FALSE]
  /\ sameRender
  /\ UNCHANGED <<mediaRecorderRef, recordedMimeTypeRef, recorders, urls, control>>

\* ------------------------------------------------------- effect (417-427)
\* React renders the queued values, after the effect work of the render
\* before.  When a dependency of the effect changed, the cleanup of the
\* previous render's effect is owed, with the capturedImages and
\* recordedVideoUrl of the render it was created in (line 427); it runs in a
\* later task.
Render ==
  /\ ~disposed
  /\ ~Settled
  /\ cleanup = << >>
  /\ isStreaming' = pending.isStreaming
  /\ isRecording' = pending.isRecording
  /\ error' = pending.error
  /\ devices' = pending.devices
  /\ selectedDeviceId' = pending.selectedDeviceId
  /\ recordedChunks' = pending.recordedChunks
  /\ capturedImages' = pending.capturedImages
  /\ recordedVideoUrl' = pending.recordedVideoUrl
  /\ cleanup' = IF DepsChanged(capturedImages, recordedVideoUrl,
                               pending.capturedImages, pending.recordedVideoUrl)
                THEN << [capturedImages |-> capturedImages,
                         recordedVideoUrl |-> recordedVideoUrl] >>
                ELSE << >>
  /\ UNCHANGED <<pending, refs, hostObjects, calls, enumCalls, pendingBlobs,
                 captureOutcome, disposed>>

\* The cleanup React owes runs (lines 418-426): stopCamera, on the stream
\* held by now, then the revocation of the handles its closure holds.  What
\* stopCamera sets is queued for a later render.
EffectCleanup ==
  /\ cleanup # << >>
  /\ streams' = stopCameraStreams
  /\ streamRef' = NoRef
  /\ videoSrc' = NoRef
  /\ pending' = Set(pending, [pending EXCEPT !.isStreaming = FALSE, !.isRecording = FALSE])
  /\ urls' = CleanupUrls(urls, cleanup[1].capturedImages, cleanup[1].recordedVideoUrl)
  /\ cleanup' = Tail(cleanup)
  /\ sameRender
  /\ UNCHANGED <<mediaRecorderRef, recordedMimeTypeRef, recorders, calls, enumCalls,
                 pendingBlobs, captureOutcome, disposed>>

\* The component unmounts, after the effect work of the render before: the
\* video element is detached (videoRef.current is null from here on), values
\* queued and not rendered are dropped, the component's state is gone (the
\* state variables return to their initial values and setters no longer
\* change them) and the cleanup of the last render's effect is owed; it runs
\* in a later task.
Dispose ==
  /\ ~disposed
  /\ cleanup = << >>
  /\ disposed' = TRUE
  /\ cleanup' = << [capturedImages |-> capturedImages,
                    recordedVideoUrl |-> recordedVideoUrl] >>
  /\ videoSrc' = NoRef
  /\ isStreaming' = FALSE
  /\ isRecording' = FALSE
  /\ error' = Null
  /\ devices' = << >>
  /\ selectedDeviceId' = Null
  /\ recordedChunks' = << >>
  /\ capturedImages' = << >>
  /\ recordedVideoUrl' = NoRef
  /\ pending' = InitialState
  /\ UNCHANGED <<streamRef, mediaRecorderRef, recordedMimeTypeRef, hostObjects,
                 calls, enumCalls, pendingBlobs, captureOutcome>>

\* ----------------------------------------------------------------- recording
mimeTypes ==
  << "video/mp4", "video/mp4; codecs=\"avc1.42E01E, mp4a.40.2\"",
     "video/webm;codecs=vp9", "video/webm;codecs=vp8",
     "video/webm; codecs=\"vp8, opus\"", "video/webm" >>

\* A format selection that takes the first preference without asking the host.
supportedMimeType_First(supported) == mimeTypes[1]

\* mimeTypes.find(type => MediaRecorder.isTypeSupported(type)) on a host that
\* supports the formats `supported`; Null: undefined (lines 185-189)
supportedMimeType(supported) ==
  IF \E k \in DOMAIN mimeTypes : mimeTypes[k] \in supported
  THEN mimeTypes[CHOOSE k \in DOMAIN mimeTypes :
                   /\ mimeTypes[k] \in supported
                   /\ \A j \in 1..(k - 1) : mimeTypes[j] \notin supported]
  ELSE Null

\* Recorders the host has not finalized yet.
Active == {r \in DOMAIN recorders : recorders[r].state = "recording"}

\* Handles already derived or still to be derived by pending work.
Reserved == Len(urls) + pendingBlobs + Cardinality(Active)

RECURSIVE SumEmitted(_)
SumEmitted(rs) == IF rs = << >> THEN 0 ELSE Len(Head(rs).emitted) + SumEmitted(Tail(rs))

UnsupportedMessage ==
  "Your browser doesn't support video recording. Please try a different browser."

\* A startRecording that does not test isRecording.
startRecordingReturns_NoStreamOnly == streamRef = NoRef

\* The guard of startRecording (line 170)
startRecordingReturns == streamRef = NoRef \/ isRecording

\* A recorder constructed on stream s with its handlers installed (lines
\* 201-230), in the given state: "recording" once start() returned (line 233),
\* "never-started" when start() threw (the host reports it inactive and fires
\* none of its events).
NewRecorder(s, state) ==
  [stream |-> s, state |-> state, stopped |-> FALSE, failed |-> FALSE,
   emitted |-> << >>, chunks |-> << >>]

\* startRecording (lines 169-241) on a host that supports the formats
\* `supported` and treats the new recorder as `outcome` says
StartRecording(supported, outcome) ==
  /\ ~disposed
  /\ IF startRecordingReturns
     THEN UNCHANGED vars
     ELSE IF supportedMimeType(supported) = Null
     THEN /\ pending' = [pending EXCEPT !.recordedChunks = << >>,
                                        !.error = UnsupportedMessage]
          /\ sameRender
          /\ UNCHANGED <<refs, hostObjects, control>>
     ELSE IF outcome = "newThrows"
     THEN /\ pending' = [pending EXCEPT !.recordedChunks = << >>,
                                        !.error = StartFailedMessage]
          /\ recordedMimeTypeRef' = supportedMimeType(supported)
          /\ sameRender
          /\ UNCHANGED <<streamRef, mediaRecorderRef, videoSrc, hostObjects, control>>
     ELSE IF outcome = "startThrows"
     THEN /\ Len(recorders) < MaxRecorders
          /\ pending' = [pending EXCEPT !.recordedChunks = << >>,
                                        !.error = StartFailedMessage]
          /\ recordedMimeTypeRef' = supportedMimeType(supported)
          /\ recorders' = Append(recorders, NewRecorder(streamRef, "never-started"))
          /\ mediaRecorderRef' = Len(recorders) + 1
          /\ sameRender
          /\ UNCHANGED <<streamRef, videoSrc, streams, urls, control>>
     ELSE /\ Len(recorders) < MaxRecorders
          /\ Reserved < MaxUrls
          /\ pending' = [pending EXCEPT !.recordedChunks = << >>,
                                        !.isRecording = TRUE,
                                        !.error = Null]
          /\ recordedMimeTypeRef' = supportedMimeType(supported)
          /\ recorders' = Append(recorders, NewRecorder(streamRef, "recording"))
          /\ mediaRecorderRef' = Len(recorders) + 1
          /\ sameRender
          /\ UNCHANGED <<streamRef, videoSrc, streams, urls, control>>

\* recorder.stop(): the recorder is signalled to finalize; on a recorder that
\* is not recording the call returns at once, as the MediaStream Recording
\* specification has it.
RecorderStop(rs, r) ==
  IF rs[r].state = "recording" THEN [rs EXCEPT ![r].stopped = TRUE] ELSE rs

\* The guard of stopRecording (line 245)
stopRecordingActs == mediaRecorderRef # NoRef /\ isRecording

\* stopRecording (lines 244-249)
StopRecording ==
  /\ ~disposed
  /\ IF stopRecordingActs
     THEN /\ recorders' = RecorderStop(recorders, mediaRecorderRef)
          /\ pending' = [pending EXCEPT !.isRecording = FALSE]
          /\ sameRender
          /\ UNCHANGED <<refs, streams, urls, control>>
     ELSE UNCHANGED vars

\* An ondataavailable that keeps zero-length chunks.
pushChunk_All(chunks, chunk) == Append(chunks, chunk)

\* The recorder's chunks array after a chunk was emitted (lines 207-210)
pushChunk(chunks, chunk) == IF chunk.size > 0 THEN Append(chunks, chunk) ELSE chunks

\* ondataavailable (lines 206-211): a chunk of `size` bytes is emitted
DataAvailable(r, size) ==
  /\ r \in DOMAIN recorders
  /\ recorders[r].state = "recording"
  /\ SumEmitted(recorders) < MaxChunks
  /\ LET chunk == [rec |-> r, seq |-> Len(recorders[r].emitted) + 1, size |-> size]
     IN recorders' = [recorders EXCEPT
                        ![r].emitted = Append(@, chunk),
                        ![r].chunks = pushChunk(@, chunk)]
  /\ UNCHANGED <<reactState, refs, streams, urls, control>>

\* onerror (lines 227-230): the host reports an error of a recording recorder,
\* which it then stops by itself.
RecorderError(r, name) ==
  /\ r \in DOMAIN recorders
  /\ recorders[r].state = "recording"
  /\ ~recorders[r].failed
  /\ recorders' = [recorders EXCEPT ![r].failed = TRUE]
  /\ pending' = Set(pending, [pending EXCEPT !.error = RecordingErrorMessage(name)])
  /\ sameRender
  /\ UNCHANGED <<refs, streams, urls, control>>

\* The chunk sequence onstop publishes (line 215)
onstopChunks(r) == recorders[r].chunks

\* The host finalizes a recorder that was signalled to stop, that failed or
\* whose stream's tracks all ended, and onstop runs (lines 213-225).
Finalize(r) ==
  /\ r \in DOMAIN recorders
  /\ recorders[r].state = "recording"
  /\ recorders[r].stopped \/ recorders[r].failed \/ ~streams[recorders[r].stream].live
  /\ recorders' = [recorders EXCEPT ![r].state = "inactive"]
  /\ IF Len(recorders[r].chunks) > 0
     THEN /\ urls' = Append(urls, 0)
          /\ pending' = Set(pending, [pending EXCEPT !.recordedChunks = onstopChunks(r),
                                                     !.recordedVideoUrl = Len(urls) + 1])
     ELSE /\ urls' = urls
          /\ pending' = Set(pending, [pending EXCEPT !.recordedChunks = onstopChunks(r)])
  /\ sameRender
  /\ UNCHANGED <<refs, streams, control>>

\* clearRecordedVideo (lines 324-331)
ClearRecordedVideo ==
  /\ ~disposed
  /\ recordedMimeTypeRef' = Null
  /\ IF recordedVideoUrl # NoRef
     THEN /\ urls' = Revoke(urls, recordedVideoUrl)
          /\ pending' = [pending EXCEPT !.recordedVideoUrl = NoRef,
                                        !.recordedChunks = << >>]
     ELSE /\ urls' = urls
          /\ pending' = [pending EXCEPT !.recordedChunks = << >>]
  /\ sameRender
  /\ UNCHANGED <<streamRef, mediaRecorderRef, videoSrc, streams, recorders, control>>

\* downloadVideo (lines 305-321): a handle for the chunks of the latest render
\* is derived, used for the download and revoked.
DownloadVideo ==
  /\ ~disposed
  /\ IF Len(recordedChunks) = 0
     THEN UNCHANGED vars
     ELSE /\ Reserved < MaxUrls
          /\ urls' = Append(urls, 1)
          /\ UNCHANGED <<reactState, refs, streams, recorders, control>>

\* ------------------------------------------------------------------- capture
\* A captureImage that does not test isStreaming.
captureImageRejects_Never == FALSE

\* The guard of captureImage (line 254), the video element being attached
captureImageRejects == ~isStreaming

\* captureImage up to toBlob (lines 252-301): the frame is drawn and its
\* encoding requested, or the canvas throws (throws) and the catch of lines
\* 297-300 runs
CaptureImage(throws) ==
  /\ ~disposed
  /\ IF captureImageRejects
     THEN /\ captureOutcome' = "rejected"
          /\ UNCHANGED <<reactState, refs, hostObjects, calls, enumCalls, pendingBlobs,
                         disposed, cleanup>>
     ELSE IF throws
     THEN /\ captureOutcome' = "rejected"
          /\ pending' = [pending EXCEPT !.error = CaptureFailedMessage]
          /\ sameRender
          /\ UNCHANGED <<refs, hostObjects, calls, enumCalls, pendingBlobs, disposed, cleanup>>
     ELSE /\ Reserved < MaxUrls
          /\ pendingBlobs' = pendingBlobs + 1
          /\ UNCHANGED <<reactState, refs, hostObjects, calls, enumCalls,
                         captureOutcome, disposed, cleanup>>

\* The latest clock reading an image id was taken from.
lastReading ==
  IF pending.capturedImages = << >> THEN 0
  ELSE pending.capturedImages[Len(pending.capturedImages)].id

\* The toBlob callback (lines 274-293) with a blob (hasBlob) or null, at the
\* clock reading t (Date.now(), which does not go back).
ToBlobCallback(hasBlob, t) ==
  /\ pendingBlobs > 0
  /\ pendingBlobs' = pendingBlobs - 1
  /\ t >= lastReading
  /\ IF ~hasBlob
     THEN /\ captureOutcome' = "rejected"
          /\ UNCHANGED <<reactState, refs, hostObjects, calls, enumCalls, disposed, cleanup>>
     ELSE LET captured == [id |-> t, url |-> Len(urls) + 1, timestamp |-> t]
          IN /\ urls' = Append(urls, 0)
             /\ pending' = Set(pending, [pending EXCEPT
                                           !.capturedImages = Append(@, captured),
                                           !.error = Null])
             /\ captureOutcome' = "resolved"
             /\ sameRender
             /\ UNCHANGED <<refs, streams, recorders, calls, enumCalls, disposed, cleanup>>

\* ------------------------------------------------------------------ switching
\* switchCamera (lines 344-348)
SwitchCamera(deviceId, mobile) ==
  /\ ~disposed
  /\ IF deviceId # selectedDeviceId THEN startCamera(deviceId, mobile)
     ELSE UNCHANGED vars

\* devices.findIndex(device => device.deviceId === selectedDeviceId), from 1;
\* 0 when there is none (findIndex's -1)
currentIndex ==
  IF \E i \in DOMAIN devices : devices[i].deviceId = selectedDeviceId
  THEN CHOOSE i \in DOMAIN devices :
         /\ devices[i].deviceId = selectedDeviceId
         /\ \A j \in 1..(i - 1) : devices[j].deviceId # selectedDeviceId
  ELSE 0

\* devices.find(device => keywords.some(k => label.includes(k))); Null: undefined
findByKeywords(keywords) ==
  IF \E i \in DOMAIN devices : someIncludes(keywords, toLowerCase(devices[i].label))
  THEN devices[CHOOSE i \in DOMAIN devices :
                 /\ someIncludes(keywords, toLowerCase(devices[i].label))
                 /\ \A j \in 1..(i - 1) :
                      ~someIncludes(keywords, toLowerCase(devices[j].label))].deviceId
  ELSE Null

\* A toggleCamera whose front/back search never finds a device.
mobileTarget_None == Null

\* The front/back target of toggleCamera on a mobile platform (lines 356-378)
mobileTarget ==
  LET currentLabel == IF currentIndex = 0 THEN NoLabel
                      ELSE toLowerCase(devices[currentIndex].label)
      isCurrentFront == someIncludes(frontCameraKeywords, currentLabel)
      isCurrentBack == someIncludes(backCameraKeywords, currentLabel)
  IN IF isCurrentFront THEN findByKeywords(backCameraKeywords)
     ELSE IF isCurrentBack THEN findByKeywords(frontCameraKeywords)
     ELSE Null

\* The next device in list order (lines 386-387)
nextDevice == devices[(currentIndex % Len(devices)) + 1].deviceId

\* A toggleCamera that returns early only when no device is known.
toggleTarget_OneSuffices(mobile) ==
  IF Len(devices) < 1 THEN Null
  ELSE IF mobile /\ mobileTarget # Null /\ mobileTarget # selectedDeviceId
  THEN mobileTarget
  ELSE IF nextDevice # selectedDeviceId THEN nextDevice
  ELSE Null

\* The device toggleCamera starts, Null when it starts none (lines 351-392)
toggleTarget(mobile) ==
  IF Len(devices) <= 1 THEN Null
  ELSE IF mobile /\ mobileTarget # Null /\ mobileTarget # selectedDeviceId
  THEN mobileTarget
  ELSE IF nextDevice # selectedDeviceId THEN nextDevice
  ELSE Null

ToggleCamera(mobile) ==
  /\ ~disposed
  /\ IF toggleTarget(mobile) # Null THEN startCamera(toggleTarget(mobile), mobile)
     ELSE UNCHANGED vars

\* ------------------------------------------------------ currentCameraType
\* A keyword list for 'front' that holds the back keywords.
frontKeywords_Back ==
  << <<"b","a","c","k">>, <<"r","e","a","r">>,
     <<"e","n","v","i","r","o","n","m","e","n","t">>,
     <<"f","a","c","i","n","g"," ","e","n","v","i","r","o","n","m","e","n","t">> >>

\* The keyword lists of getCurrentCameraType (lines 402-403)
frontKeywords ==
  << <<"f","r","o","n","t">>, <<"u","s","e","r">>,
     <<"f","a","c","i","n","g"," ","u","s","e","r">>,
     <<"s","e","l","f","i","e">> >>
backKeywords ==
  << <<"b","a","c","k">>, <<"r","e","a","r">>,
     <<"e","n","v","i","r","o","n","m","e","n","t">>,
     <<"f","a","c","i","n","g"," ","e","n","v","i","r","o","n","m","e","n","t">> >>

\* devices.find(device => device.deviceId === selectedDeviceId): its position,
\* 0 when find returns undefined (line 398)
currentDevice ==
  IF \E i \in DOMAIN devices : devices[i].deviceId = selectedDeviceId
  THEN CHOOSE i \in DOMAIN devices :
         /\ devices[i].deviceId = selectedDeviceId
         /\ \A j \in 1..(i - 1) : devices[j].deviceId # selectedDeviceId
  ELSE 0

\* getCurrentCameraType (lines 395-412), the value of currentCameraType in
\* the render of the current state (line 454)
getCurrentCameraType ==
  IF Falsy(selectedDeviceId) \/ Len(devices) = 0 THEN "unknown"
  ELSE IF currentDevice = 0 THEN "unknown"
  ELSE IF devices[currentDevice].label = NoLabel THEN "unknown"
  ELSE LET label == toLowerCase(devices[currentDevice].label)
       IN IF someIncludes(frontKeywords, label) THEN "front"
          ELSE IF someIncludes(backKeywords, label) THEN "back"
          ELSE "unknown"

\* ------------------------------------------------------------- specification
\* Positions of the startCamera calls and getDevices calls in flight, and the
\* recorders
CallIds == 1..MaxStreams
EnumCallIds == 1..MaxEnumCalls
RecorderIds == 1..MaxRecorders

\* Each stream call completes before the next is issued: the consumer's
\* calls that start or stop a stream, made when no startCamera call is in
\* flight.
NoCallInFlight == calls = << >>
StartCameraSeq(mobile) == NoCallInFlight /\ StartCamera(mobile)
\* startCamera() on a desktop page: deviceId defaults to selectedDeviceId
StartCameraDefault == NoCallInFlight /\ ~disposed /\ startCamera(selectedDeviceId, FALSE)
StopCameraSeq == NoCallInFlight /\ StopCamera
SwitchCameraSeq(d, mobile) == NoCallInFlight /\ SwitchCamera(d, mobile)
ToggleCameraSeq(mobile) == NoCallInFlight /\ ToggleCamera(mobile)

Sequential ==
  \/ \E mobile \in UserAgents : StartCameraSeq(mobile)
  \/ StopCameraSeq
  \/ \E d \in DeviceIds, mobile \in UserAgents : SwitchCameraSeq(d, mobile)
  \/ \E mobile \in UserAgents : ToggleCameraSeq(mobile)

\* The host's completions of the startCamera calls in flight.
CallStep ==
  \/ \E i \in CallIds, d \in DeviceIds : AcquireResolve(i, d)
  \/ \E i \in CallIds, name \in AcquireErrors : AcquireReject(i, name)
  \/ \E i \in CallIds : PlayResolve(i)
  \/ \E i \in CallIds, name \in PlayErrors : PlayReject(i, name)
  \/ \E i \in CallIds, list \in EnumResults : EnumResolve(i, list)
  \/ \E i \in CallIds : EnumReject(i)

\* getDevices called on its own, and its completion.
DeviceStep ==
  \/ GetDevices
  \/ \E k \in EnumCallIds, list \in EnumResults : GetDevicesResolve(k, list)
  \/ \E k \in EnumCallIds : GetDevicesReject(k)

\* The recording calls and the recorder's events.
RecordingStep ==
  \/ \E supported \in SupportedTypeSets, outcome \in RecorderOutcomes :
       StartRecording(supported, outcome)
  \/ StopRecording
  \/ ClearRecordedVideo
  \/ DownloadVideo
  \/ \E r \in RecorderIds, size \in ChunkSizes : DataAvailable(r, size)
  \/ \E r \in RecorderIds, name \in RecorderErrors : RecorderError(r, name)
  \/ \E r \in RecorderIds : Finalize(r)

\* captureImage and the completion of its encode.
CaptureStep ==
  \/ \E throws \in BOOLEAN : CaptureImage(throws)
  \/ \E hasBlob \in BOOLEAN, t \in 0..MaxClock : ToBlobCallback(hasBlob, t)

Next ==
  \/ Sequential
  \/ CallStep
  \/ DeviceStep
  \/ RecordingStep
  \/ CaptureStep
  \/ Render
  \/ EffectCleanup
  \/ Dispose

Spec == Init /\ [][Next]_vars

\* The stream calls, their completions, React's renders and disposal.
StreamNext == Sequential \/ CallStep \/ Render \/ EffectCleanup \/ Dispose
StreamSpec == Init /\ [][StreamNext]_vars

\* Starting and stopping the stream, image capture, React's renders and
\* effect cleanups, and disposal.
CaptureNext ==
  \/ \E mobile \in UserAgents : StartCameraSeq(mobile)
  \/ StopCameraSeq
  \/ CallStep
  \/ CaptureStep
  \/ Render
  \/ EffectCleanup
  \/ Dispose
CaptureSpec == Init /\ [][CaptureNext]_vars

\* A host that grants camera A to a desktop page and lists a front and a back
\* camera: the stream calls, each completing before the next, and their
\* completions.
ListedDevices ==
  { << VideoInput("A", LabelFront), AudioInput("M"), VideoInput("B", LabelBack) >> }
SingleCameraStep ==
  \/ StartCameraDefault
  \/ StopCameraSeq
  \/ \E i \in CallIds : AcquireResolve(i, "A")
  \/ \E i \in CallIds : PlayResolve(i)
  \/ \E i \in CallIds : PlayReject(i, "AbortError")
  \/ \E i \in CallIds, list \in ListedDevices : EnumResolve(i, list)

\* Starting and stopping a recording, the recorder emitting non-empty chunks.
RecordingCalls ==
  \/ \E supported \in SupportedTypeSets, outcome \in RecorderOutcomes :
       StartRecording(supported, outcome)
  \/ StopRecording
  \/ \E r \in RecorderIds : DataAvailable(r, 1)
  \/ \E r \in RecorderIds : Finalize(r)

\* The stream calls on the single-camera host, recording and React's renders.
RecordingNext == SingleCameraStep \/ RecordingCalls \/ Render \/ EffectCleanup
RecordingSpec == Init /\ [][RecordingNext]_vars

\* The recorded video: recordings that start, their chunks, errors and
\* finalization, clearing and downloading the result.
VideoCalls ==
  \/ StartRecording({"video/webm;codecs=vp8", "video/webm"}, "started")
  \/ StopRecording
  \/ ClearRecordedVideo
  \/ DownloadVideo
  \/ \E r \in RecorderIds : DataAvailable(r, 1)
  \/ \E r \in RecorderIds, name \in RecorderErrors : RecorderError(r, name)
  \/ \E r \in RecorderIds : Finalize(r)
VideoNext ==
  \/ StartCameraDefault
  \/ \E i \in CallIds : AcquireResolve(i, "A")
  \/ \E i \in CallIds : PlayResolve(i)
  \/ \E i \in CallIds, list \in ListedDevices : EnumResolve(i, list)
  \/ VideoCalls
  \/ Render
  \/ EffectCleanup
VideoSpec == Init /\ [][VideoNext]_vars

\* Streams that start without failure, enumerations inside and outside a
\* stream start, React's renders and disposal.
DeviceNext ==
  \/ \E mobile \in UserAgents : StartCameraSeq(mobile)
  \/ \E i \in CallIds, d \in DeviceIds : AcquireResolve(i, d)
  \/ \E i \in CallIds : PlayResolve(i)
  \/ \E i \in CallIds, list \in EnumResults : EnumResolve(i, list)
  \/ \E i \in CallIds : EnumReject(i)
  \/ DeviceStep
  \/ Render
  \/ EffectCleanup
  \/ Dispose
DeviceSpec == Init /\ [][DeviceNext]_vars

\* ------------------------------------------------------------------- claims
\* The streams the host handed out whose tracks have not been stopped.
LiveStreams == {s \in DOMAIN streams : streams[s].live}

\* C1: with each stream call completing before the next is issued, at most
\* one stream acquired from the host has tracks that were not stopped.
C1_AtMostOneLiveStream == Cardinality(LiveStreams) <= 1

\* A second stream was acquired by a completed call after the first was
\* stopped.
C1_Witness ==
  /\ Len(streams) = 2
  /\ LiveStreams = {2}
  /\ streamRef = 2
  /\ calls = << >>
  /\ isStreaming

\* C2: isRecording is false whenever isStreaming is false, in every render.
C2_RecordingImpliesStreaming == isRecording => isStreaming

\* C3: once the cleanup of disposal has run, every display handle the last
\* render showed has been revoked exactly once: none is left unrevoked and
\* none was revoked a second time.
C3_RevokedExactlyOnce ==
  [][(disposed /\ EffectCleanup)
       => \A h \in {cleanup[1].capturedImages[k].url :
                       k \in DOMAIN cleanup[1].capturedImages}
                     \cup ({cleanup[1].recordedVideoUrl} \ {NoRef}) :
            urls'[h] = 1]_vars

\* C4: before the controller is disposed, no revoked display handle is still
\* exposed: in a render that shows every value set, every entry of
\* capturedImages and a non-null recordedVideoUrl refer to a handle that has
\* not been revoked.
C4_NoRevokedHandleExposed ==
  (~disposed /\ Settled) =>
    /\ \A k \in DOMAIN capturedImages : urls[capturedImages[k].url] = 0
    /\ recordedVideoUrl # NoRef => urls[recordedVideoUrl] = 0

\* The first acquisition of call i is rejected for a reason other than
\* overconstrained.
FirstAttemptFails(i) ==
  /\ i \in DOMAIN calls
  /\ calls[i].attempt = 1
  /\ \E name \in AcquireErrors \ {"OverconstrainedError"} : AcquireReject(i, name)

\* C5: when startStream fails with permission-denied, not-found, device-busy
\* or any other non-overconstrained reason, the call ends in Idle: isStreaming
\* is set false, no stream is held as the active stream, and error is set to
\* the message for that reason.
C5_FailedStartEndsIdle ==
  [][\A i \in CallIds, name \in AcquireErrors \ {"OverconstrainedError"} :
       (~disposed /\ FirstAttemptFails(i) /\ AcquireReject(i, name))
         => /\ ~pending'.isStreaming
            /\ streamRef' = NoRef
            /\ pending'.error = AccessMessage(name)]_vars

\* Call i, whose fallback acquisition succeeded, returns in this step: from
\* the catch of a rejected play(), or past its getDevices().
FallbackCallReturns(i) ==
  /\ i \in DOMAIN calls
  /\ calls[i].attempt = 2
  /\ calls[i].stream # NoRef
  /\ \/ \E name \in PlayErrors : PlayReject(i, name)
     \/ \E list \in EnumResults : EnumResolve(i, list)
     \/ EnumReject(i)

\* C6: if the first acquisition of a startStream call fails as overconstrained
\* and the fallback acquisition succeeds, the call ends with isStreaming set
\* true, the fallback stream held as the active stream, and error = null.
C6_FallbackSuccessStreams ==
  [][\A i \in CallIds :
       (~disposed /\ ~disposed' /\ FallbackCallReturns(i))
         => /\ pending'.isStreaming
            /\ streamRef' = calls[i].stream
            /\ pending'.error = Null]_vars

\* C7: a startStream call issues at most two acquisition requests; the second
\* is issued only when the first failed as overconstrained and uses the
\* minimal constraints; when the second fails, for any reason, there is no
\* third request and the call ends with isStreaming set false and the
\* combined error message.
C7_OneFallbackOnly ==
  [][\A i \in CallIds :
       (~disposed /\ i \in DOMAIN calls) =>
         /\ (i \in DOMAIN calls' /\ calls'[i].attempt # calls[i].attempt)
              => /\ calls[i].attempt = 1
                 /\ calls'[i].attempt = 2
                 /\ AcquireReject(i, "OverconstrainedError")
                 /\ calls'[i].constraints = BasicConstraints
         /\ \A name \in AcquireErrors :
              (calls[i].attempt = 2 /\ AcquireReject(i, name))
                => /\ Len(calls') < Len(calls)
                   /\ ~pending'.isStreaming
                   /\ pending'.error = BasicFailedMessage]_vars

\* C8: in every render in which the device list is non-empty,
\* selectedDeviceId is the id of one of its entries.
C8_SelectedInDevices ==
  devices # << >> => \E k \in DOMAIN devices : devices[k].deviceId = selectedDeviceId

\* The recorder of the latest recording pass is still recording and has not
\* been signalled to stop.
InPass ==
  /\ mediaRecorderRef # NoRef
  /\ recorders[mediaRecorderRef].state = "recording"
  /\ ~recorders[mediaRecorderRef].stopped

\* C9: from the start of a recording pass until its first chunk is emitted
\* recordedChunks is empty, and no chunk of an earlier pass appears in it
\* during the pass, in every render that shows every value set.
C9_FreshChunksDuringPass ==
  (InPass /\ Settled) =>
    /\ recorders[mediaRecorderRef].emitted = << >> => recordedChunks = << >>
    /\ \A k \in DOMAIN recordedChunks : recordedChunks[k].rec = mediaRecorderRef

\* C10: captureImage called while isStreaming is false rejects its promise and
\* appends nothing: capturedImages is unchanged, no display handle is derived
\* and no encode is requested.
C10_CaptureWhenIdleRejects ==
  [][((\E throws \in BOOLEAN : CaptureImage(throws)) /\ ~isStreaming)
       => /\ captureOutcome' = "rejected"
          /\ capturedImages' = capturedImages
          /\ pending'.capturedImages = pending.capturedImages
          /\ urls' = urls
          /\ pendingBlobs' = pendingBlobs]_vars

\* captureImage was rejected by a controller that never held a stream.
C10_Witness ==
  /\ captureOutcome = "rejected"
  /\ streams = << >>
  /\ calls = << >>
  /\ capturedImages = << >>
  /\ urls = << >>

\* The controller holds no stream, the preview is detached and both flags
\* are set false.
Idle ==
  /\ streamRef = NoRef
  /\ videoSrc = NoRef
  /\ ~pending.isStreaming
  /\ ~pending.isRecording

\* C11: stopCamera is idempotent: one call stops the tracks of the held
\* stream and leaves no stream held, the preview detached, isStreaming and
\* isRecording set false and error as it was; a call made in that state changes
\* nothing, so a second call in a row leaves the state of the first; the
\* render that follows shows both flags false.
C11_StopIdempotent ==
  [][/\ StopCamera =>
          /\ Idle'
          /\ streamRef # NoRef => ~streams'[streamRef].live
          /\ pending'.error = pending.error
          /\ error' = error
          /\ Idle => UNCHANGED vars
     /\ (Render /\ Idle) => (Idle' /\ ~isStreaming' /\ ~isRecording')]_vars

\* stopCamera was called while a recorder was recording on the held stream,
\* and the flags it set were rendered.
C11_Witness ==
  /\ ~disposed
  /\ Idle
  /\ Settled
  /\ urls = << >>
  /\ Len(recorders) = 1
  /\ recorders[1].state = "recording"
  /\ ~recorders[1].stopped
  /\ ~streams[recorders[1].stream].live

\* C12: startRecording called when no stream is held, or when isRecording is
\* already true, is a no-op: no recorder is created or started, and
\* isRecording, recordedChunks, recordedVideoUrl and error keep their values,
\* rendered and set.
C12_StartRecordingNoOp ==
  [][(\E supported \in SupportedTypeSets, outcome \in RecorderOutcomes :
        StartRecording(supported, outcome))
       /\ (streamRef = NoRef \/ isRecording)
       => /\ recorders' = recorders
          /\ mediaRecorderRef' = mediaRecorderRef
          /\ pending' = pending
          /\ isRecording' = isRecording
          /\ recordedChunks' = recordedChunks
          /\ recordedVideoUrl' = recordedVideoUrl
          /\ error' = error]_vars

\* A recording is in progress on the held stream: a further startRecording
\* meets the guard.
C12_Witness ==
  /\ ~disposed
  /\ isRecording
  /\ streamRef # NoRef
  /\ Len(recorders) = 1
  /\ recorders[1].state = "recording"
  /\ error = Null

\* The host supports none of the formats of the preference list.
NoneSupported(supported) == \A k \in DOMAIN mimeTypes : mimeTypes[k] \notin supported

\* C13: when the host supports none of the formats in the preference list,
\* a startRecording that passes its guard does not start: no recorder is
\* created, isRecording is not set and error is set to the 'recording not
\* supported' message.
C13_UnsupportedDoesNotStart ==
  [][\A supported \in SupportedTypeSets, outcome \in RecorderOutcomes :
       (/\ NoneSupported(supported)
        /\ streamRef # NoRef
        /\ ~isRecording
        /\ StartRecording(supported, outcome))
       => /\ recorders' = recorders
          /\ mediaRecorderRef' = mediaRecorderRef
          /\ ~isRecording'
          /\ pending'.isRecording = pending.isRecording
          /\ pending'.error = UnsupportedMessage]_vars

\* startRecording was refused on a held stream for want of a supported format,
\* and the message was rendered.
C13_Witness ==
  /\ ~disposed
  /\ error = UnsupportedMessage
  /\ streamRef # NoRef
  /\ recorders = << >>
  /\ ~isRecording

\* A stream that starts without failure on the single-camera host, one
\* recording format, the recorder's events, React's renders and disposal.  The
\* host delivers the finalize event of every recorder that was signalled to
\* stop or whose tracks ended, and React renders the values that were set and
\* runs the effect cleanups it owes.
FinalizeNext ==
  \/ StartCameraDefault
  \/ \E i \in CallIds : AcquireResolve(i, "A")
  \/ \E i \in CallIds : PlayResolve(i)
  \/ \E i \in CallIds, list \in ListedDevices : EnumResolve(i, list)
  \/ StartRecording({"video/webm;codecs=vp8", "video/webm"}, "started")
  \/ StopRecording
  \/ \E r \in RecorderIds, size \in ChunkSizes : DataAvailable(r, size)
  \/ \E r \in RecorderIds : Finalize(r)
  \/ Render
  \/ EffectCleanup
  \/ Dispose
FinalizeSpec ==
  /\ Init
  /\ [][FinalizeNext]_vars
  /\ \A r \in RecorderIds : WF_vars(Finalize(r))
  /\ WF_vars(Render)
  /\ WF_vars(EffectCleanup)

\* The non-zero-length chunks among `emitted`, in emission order.
NonZero(emitted) == SelectSeq(emitted, LAMBDA c : c.size > 0)

\* Recorder r was signalled to stop and the host has not finalized it yet.
Stopping(r) ==
  /\ r \in DOMAIN recorders
  /\ recorders[r].stopped
  /\ recorders[r].state = "recording"

\* Recorder r is finalized and recordedChunks was set to exactly its
\* non-zero-length chunks, in emission order.
Published(r) ==
  /\ r \in DOMAIN recorders
  /\ recorders[r].state = "inactive"
  /\ pending.recordedChunks = NonZero(recorders[r].emitted)

\* Recorder r is finalized and a render shows exactly its non-zero-length
\* chunks, in emission order.
Rendered(r) ==
  /\ r \in DOMAIN recorders
  /\ recorders[r].state = "inactive"
  /\ recordedChunks = NonZero(recorders[r].emitted)

\* C14: stopRecording while recording sets isRecording false in the call and
\* signals the recorder; the host delivering the finalize event, recordedChunks
\* is eventually set to exactly the non-zero-length chunks that recorder
\* emitted, in emission order (unless the component unmounted meanwhile), and,
\* when no other recorder is still recording, a render shows them (unless the
\* component unmounted or a later recording was started meanwhile); every
\* render shows the values set; stopRecording when not recording changes
\* nothing.
C14_StopPublishesChunks ==
  /\ [][/\ (StopRecording /\ isRecording) =>
             /\ ~pending'.isRecording
             /\ (mediaRecorderRef # NoRef
                   /\ recorders[mediaRecorderRef].state = "recording")
                  => recorders'[mediaRecorderRef].stopped
        /\ (StopRecording /\ ~isRecording) => UNCHANGED vars
        /\ Render => recordedChunks' = pending.recordedChunks]_vars
  /\ \A r \in RecorderIds : Stopping(r) ~> (Published(r) \/ disposed)
  /\ \A r \in RecorderIds :
       (Stopping(r) /\ Active = {r}) ~> (Rendered(r) \/ disposed \/ Len(recorders) > r)

\* A stopped recorder that emitted a zero-length and a non-zero-length chunk
\* was finalized and its non-zero-length chunk published and rendered.
C14_Witness ==
  /\ ~disposed
  /\ Len(recorders) >= 1
  /\ recorders[1].stopped
  /\ recorders[1].state = "inactive"
  /\ Len(recorders[1].emitted) = 2
  /\ recorders[1].emitted[1].size = 0
  /\ recorders[1].emitted[2].size > 0
  /\ recordedChunks = << recorders[1].emitted[2] >>

\* C15: toggleCamera called when fewer than two devices are known is a no-op:
\* no acquisition is requested, no track is stopped, and the held stream,
\* selectedDeviceId, isStreaming and error are unchanged.
C15_ToggleNeedsTwoDevices ==
  [][\A mobile \in UserAgents :
       (Len(devices) < 2 /\ ToggleCamera(mobile))
         => /\ calls' = calls
            /\ streams' = streams
            /\ streamRef' = streamRef
            /\ pending' = pending
            /\ selectedDeviceId' = selectedDeviceId
            /\ isStreaming' = isStreaming
            /\ error' = error]_vars

\* Streaming on a device that is not the only one listed: toggleCamera has a
\* device it could move to, and does not.
C15_Witness ==
  /\ ~disposed
  /\ calls = << >>
  /\ isStreaming
  /\ streamRef # NoRef
  /\ streams[streamRef].live
  /\ Len(devices) = 1
  /\ devices[1].deviceId # selectedDeviceId

\* ------------------------------------------------- toggleCamera on any list
\* A label with a front and a back keyword.
LabelBoth == <<"F","r","o","n","t","/","R","e","a","r">>
ToggleLabels ==
  {LabelFront, LabelBack, LabelWebcam, LabelBoth, NoLabel, LabelKelvin, LabelDotted,
   LabelAccent}

\* Device lists an enumeration may have stored: two or three video inputs
\* with distinct ids, one of which may be the empty id, and any labels.
ToggleLists ==
  { << VideoInput(id, l1), VideoInput("B", l2) >> :
      id \in {"A", NoId}, l1 \in ToggleLabels, l2 \in ToggleLabels }
  \cup { << VideoInput("A", l1), VideoInput("C", l2), VideoInput("B", l3) >> :
           l1, l2, l3 \in ToggleLabels }

\* The cameras of the host of these lists.
ToggleIds == {"A", "B", "C"}

\* The hook with a device list stored, a device selected (or none) and no
\* stream yet, as a standalone getDevices and an earlier session leave it.
ToggleInit ==
  /\ devices \in ToggleLists
  /\ selectedDeviceId \in ToggleIds \cup {Null, NoId}
  /\ isStreaming = FALSE
  /\ isRecording = FALSE
  /\ error = Null
  /\ recordedChunks = << >>
  /\ capturedImages = << >>
  /\ recordedVideoUrl = NoRef
  /\ pending = rendered
  /\ streamRef = NoRef
  /\ mediaRecorderRef = NoRef
  /\ recordedMimeTypeRef = Null
  /\ videoSrc = NoRef
  /\ streams = << >>
  /\ recorders = << >>
  /\ urls = << >>
  /\ calls = << >>
  /\ enumCalls = << >>
  /\ pendingBlobs = 0
  /\ captureOutcome = "none"
  /\ disposed = FALSE
  /\ cleanup = << >>

\* toggleCamera calls, each completing before the next on a host that grants
\* the request and answers or fails the enumeration, and React's renders.
ToggleNext ==
  \/ \E mobile \in UserAgents : ToggleCameraSeq(mobile)
  \/ \E i \in CallIds, d \in ToggleIds : AcquireResolve(i, d)
  \/ \E i \in CallIds : PlayResolve(i)
  \/ \E i \in CallIds, list \in EnumResults : EnumResolve(i, list)
  \/ \E i \in CallIds : EnumReject(i)
  \/ Render
ToggleSpec == ToggleInit /\ [][ToggleNext]_vars

\* The classification of a device by its label.
IsFront(d) == someIncludes(frontCameraKeywords, toLowerCase(d.label))
IsBack(d) == someIncludes(backCameraKeywords, toLowerCase(d.label))

\* The position of the selected device in the list, 0 when it is not listed.
Cur ==
  IF \E i \in DOMAIN devices : devices[i].deviceId = selectedDeviceId
  THEN CHOOSE i \in DOMAIN devices : devices[i].deviceId = selectedDeviceId
  ELSE 0

\* The smallest member of a non-empty set of positions.
First(S) == CHOOSE i \in S : \A j \in S : i <= j

\* The device at index (currentIndex + 1) mod n.
Cyclic == devices[(Cur % Len(devices)) + 1].deviceId

OtherBacks == {i \in DOMAIN devices : IsBack(devices[i]) /\ devices[i].deviceId # selectedDeviceId}
OtherFronts == {i \in DOMAIN devices : IsFront(devices[i]) /\ devices[i].deviceId # selectedDeviceId}
Backs == {i \in DOMAIN devices : IsBack(devices[i])}
Fronts == {i \in DOMAIN devices : IsFront(devices[i])}

\* The target as C16 states it: the first device of the opposite class among
\* the devices other than the current one, when there is one.
StatedTarget(mobile) ==
  IF mobile /\ Cur # 0 /\ IsFront(devices[Cur]) /\ OtherBacks # {}
  THEN devices[First(OtherBacks)].deviceId
  ELSE IF mobile /\ Cur # 0 /\ IsBack(devices[Cur]) /\ OtherFronts # {}
  THEN devices[First(OtherFronts)].deviceId
  ELSE Cyclic

\* The target as amended: the first device of the opposite class in the whole
\* list, taken only when it is not the current device; a current device that
\* classifies as front is not tried as back.
AmendedTarget(mobile) ==
  IF mobile /\ Cur # 0 /\ IsFront(devices[Cur])
  THEN IF Backs # {} /\ devices[First(Backs)].deviceId # selectedDeviceId
       THEN devices[First(Backs)].deviceId
       ELSE Cyclic
  ELSE IF mobile /\ Cur # 0 /\ IsBack(devices[Cur]) /\ Fronts # {}
  THEN devices[First(Fronts)].deviceId
  ELSE Cyclic

DistinctIds ==
  \A i, j \in DOMAIN devices : devices[i].deviceId = devices[j].deviceId => i = j

\* C16 as stated: with two or more known devices with distinct ids,
\* toggleCamera starts exactly the device StatedTarget gives, and that device
\* is not the selected one.
C16_StatedTarget ==
  (Len(devices) >= 2 /\ DistinctIds) =>
    \A mobile \in UserAgents :
      /\ toggleTarget(mobile) = StatedTarget(mobile)
      /\ toggleTarget(mobile) # selectedDeviceId

\* C16, amended: with two or more known devices with distinct ids,
\* toggleCamera starts exactly one device, which is not the selected one: on a
\* mobile platform, when the current device classifies as front, the first
\* back-classified device of the list if that is not the current device; when
\* it classifies as back and not as front, the first front-classified device;
\* in every other case the device at index (currentIndex + 1) mod n.
C16_AmendedTarget ==
  (Len(devices) >= 2 /\ DistinctIds) =>
    \A mobile \in UserAgents :
      /\ toggleTarget(mobile) = AmendedTarget(mobile)
      /\ toggleTarget(mobile) # Null
      /\ toggleTarget(mobile) # selectedDeviceId

\* toggleCamera on a mobile platform, the current device classifying as front
\* and as back, a back camera listed last: the request in flight is for the
\* next device of the list.
C16_Witness ==
  /\ Len(devices) = 3
  /\ selectedDeviceId = "A"
  /\ devices[1].label = LabelBoth
  /\ devices[2].label = LabelWebcam
  /\ devices[3].label = LabelBack
  /\ Len(calls) = 1
  /\ calls[1].pc = "acquire"
  /\ calls[1].attempt = 1
  /\ calls[1].constraints = getConstraints("C", TRUE)

\* currentCameraType is 'unknown' here: no selection (selectedDeviceId is
\* null or the empty id: line 396 tests its truthiness), no devices, the
\* selected id not listed, an empty label, or a label without keyword.
Unclassified ==
  \/ Falsy(selectedDeviceId)
  \/ devices = << >>
  \/ Cur = 0
  \/ devices[Cur].label = NoLabel
  \/ ~IsFront(devices[Cur]) /\ ~IsBack(devices[Cur])

\* C17: currentCameraType is 'unknown' when there is no selection (none, or
\* the empty id the host reports before permission is granted), the device
\* list is empty, the selected id is not in the list, the selected device's
\* label is empty or holds no keyword; otherwise it is 'front' or 'back'
\* according to the case-insensitive keyword match on that label.
C17_CameraType ==
  DistinctIds =>
    IF Unclassified
    THEN getCurrentCameraType = "unknown"
    ELSE /\ getCurrentCameraType \in {"front", "back"}
         /\ getCurrentCameraType = "front" => IsFront(devices[Cur])
         /\ getCurrentCameraType = "back" => IsBack(devices[Cur])

\* The selected device is listed as 'Integrated Webcam' and the type is
\* 'unknown', in a list that also holds a front camera and a camera whose
\* upper-case label ends in the Kelvin sign.
C17_Witness ==
  /\ Cur # 0
  /\ devices[Cur].label = LabelWebcam
  /\ getCurrentCameraType = "unknown"
  /\ \E i \in DOMAIN devices : devices[i].label = LabelFront
  /\ \E i \in DOMAIN devices : devices[i].label = LabelKelvin

\* An operation fails in this step: an acquisition that is not retried, a
\* play() rejection, an enumeration, a recording start without supported
\* format or with a recorder that throws, a recorder error, a capture while
\* not streaming, on a canvas that throws, or without encoded buffer.
OperationFails ==
  \/ \E i \in CallIds, name \in AcquireErrors :
       i \in DOMAIN calls /\ ~retries(i, name) /\ AcquireReject(i, name)
  \/ \E i \in CallIds, name \in PlayErrors : PlayReject(i, name)
  \/ \E i \in CallIds : EnumReject(i)
  \/ \E k \in EnumCallIds : GetDevicesReject(k)
  \/ \E supported \in SupportedTypeSets, outcome \in RecorderOutcomes :
       /\ NoneSupported(supported) \/ outcome # "started"
       /\ streamRef # NoRef /\ ~isRecording
       /\ StartRecording(supported, outcome)
  \/ \E r \in RecorderIds, name \in RecorderErrors : RecorderError(r, name)
  \/ (\E throws \in BOOLEAN : CaptureImage(throws)) /\ ~isStreaming
  \/ CaptureImage(TRUE) /\ isStreaming
  \/ \E t \in 0..MaxClock : ToBlobCallback(FALSE, t)

\* C18: every operation failure sets error to a non-null message; in
\* particular a captureImage that fails because the hook is not streaming or
\* because the host returns no encoded buffer leaves error non-null.
C18_FailureSetsError ==
  [][(~disposed /\ OperationFails) => pending'.error # Null]_vars

\* A device enumeration, a stream start, a recording start or a frame capture
\* completes successfully in this step.
\* An enumeration succeeds standalone or inside startCamera (lines 22-33); a
\* stream start succeeds when the call leaves its try block (line 98 or 139),
\* its enumeration answered or failed; a recording start when start()
\* returned (lines 233-236).
EnumerationSucceeds ==
  \/ \E k \in EnumCallIds, list \in EnumResults : GetDevicesResolve(k, list)
  \/ \E i \in CallIds, list \in EnumResults : EnumResolve(i, list)
StreamStartSucceeds ==
  \/ \E i \in CallIds, list \in EnumResults : EnumResolve(i, list)
  \/ \E i \in CallIds : EnumReject(i)
RecordingStartSucceeds ==
  /\ ~startRecordingReturns
  /\ \E supported \in SupportedTypeSets :
       supportedMimeType(supported) # Null /\ StartRecording(supported, "started")
CaptureSucceeds == \E t \in 0..MaxClock : ToBlobCallback(TRUE, t)

\* The messages the failures of each kind of operation set.
EnumerationMessages == {DevicesFailedMessage}
StreamStartMessages == {AccessMessage(name) : name \in AcquireErrors} \cup {BasicFailedMessage}
RecordingStartMessages == {UnsupportedMessage, StartFailedMessage}

\* C19: after an operation failed and set the error message, the next
\* successful completion of the same kind of operation leaves error set to
\* null.
C19_SuccessClearsError ==
  [][~disposed =>
       /\ (pending.error \in EnumerationMessages /\ EnumerationSucceeds)
            => pending'.error = Null
       /\ (pending.error \in StreamStartMessages /\ StreamStartSucceeds)
            => pending'.error = Null
       /\ (pending.error \in RecordingStartMessages /\ RecordingStartSucceeds)
            => pending'.error = Null
       /\ CaptureSucceeds => pending'.error = Null]_vars

\* The effect processing of a render that showed a newly appended image.
EffectsOfCapture ==
  /\ ~disposed
  /\ EffectCleanup
  /\ Len(capturedImages) > Len(cleanup[1].capturedImages)

\* C20: a successful captureImage leaves the stream session untouched: once
\* the image is appended and the re-render and effect processing have run,
\* isStreaming is as it was set, the held stream's tracks have not been
\* stopped and isRecording has the value it had.
C20_CaptureKeepsStream ==
  [][EffectsOfCapture =>
       /\ pending'.isStreaming = pending.isStreaming
       /\ streamRef' = streamRef
       /\ streams' = streams
       /\ pending'.isRecording = pending.isRecording]_vars

\* C21: whenever isRecording is true, in a render that shows every value
\* set, the active recorder is attached to the stream the controller
\* currently holds as its active stream.
C21_RecorderOnHeldStream ==
  (isRecording /\ Settled) =>
    /\ mediaRecorderRef # NoRef
    /\ recorders[mediaRecorderRef].stream = streamRef

\* C22: whenever isRecording is false, in a render that shows every value set
\* (and the component is mounted), every recorder the controller started has
\* been signalled to stop: none is still recording without recorder.stop()
\* having been called, unless the host stops it for an error of its own.
C22_NoRecorderLeftRunning ==
  (~disposed /\ Settled /\ ~isRecording) =>
    \A r \in DOMAIN recorders :
      recorders[r].state = "recording" => (recorders[r].stopped \/ recorders[r].failed)

\* Stream calls issued at any time, also while an earlier startCamera call is
\* suspended, the host's completions and React's renders.
OverlapNext ==
  \/ \E mobile \in UserAgents : StartCamera(mobile)
  \/ StopCamera
  \/ CallStep
  \/ Render
OverlapSpec == Init /\ [][OverlapNext]_vars

\* C23: when startCamera calls overlap, once all have completed every stream
\* the host handed out, except the one held as the active stream, has had its
\* tracks stopped: no acquired stream is left live and unreferenced.
C23_NoLiveUnreferencedStream ==
  calls = << >> => LiveStreams \subseteq {streamRef}

\* hasRecording: recordedChunks.length > 0 (line 450)
hasRecording == Len(recordedChunks) > 0

\* C24: in every render a non-null recordedVideoUrl implies hasRecording
\* (recordedChunks is non-empty), so that downloadVideo is not a silent no-op
\* while a recorded video is offered.
C24_UrlImpliesChunks ==
  recordedVideoUrl # NoRef => hasRecording

\* Every host callback that was pending has run: no encode is pending and no
\* recorder awaits its finalize event.
NoCallbackPending == pendingBlobs = 0 /\ Active = {}

\* C25: once the controller is disposed, its cleanup has run and every host
\* callback pending at disposal has run, every display handle ever derived
\* has been revoked.
C25_NoHandleLeftAfterDisposal ==
  (disposed /\ cleanup = << >> /\ NoCallbackPending)
    => \A h \in DOMAIN urls : urls[h] >= 1

\* C26: all entries of capturedImages have pairwise distinct ids.
C26_DistinctImageIds ==
  \A i, j \in DOMAIN capturedImages :
    capturedImages[i].id = capturedImages[j].id => i = j

\* The video-input entries of an enumeration, in host order.
VideoOnly(list) == SelectSeq(list, LAMBDA d : d.kind = "videoinput")

\* C27 as stated: after a successful getDevices, standalone or inside a
\* stream acquisition, devices is set to exactly the video-input entries of
\* the enumeration in host order and, if no device was selected and the
\* result is non-empty, the first entry is selected; after a failed
\* enumeration devices and selectedDeviceId are unchanged.
C27_StatedGetDevices ==
  [][~disposed =>
       /\ \A list \in EnumResults :
            ((\E k \in EnumCallIds : GetDevicesResolve(k, list))
               \/ \E i \in CallIds : EnumResolve(i, list))
              => /\ pending'.devices = VideoOnly(list)
                 /\ (pending.selectedDeviceId = Null /\ VideoOnly(list) # << >>)
                      => pending'.selectedDeviceId = VideoOnly(list)[1].deviceId
       /\ ((\E k \in EnumCallIds : GetDevicesReject(k)) \/ \E i \in CallIds : EnumReject(i))
            => /\ pending'.devices = pending.devices
               /\ pending'.selectedDeviceId = pending.selectedDeviceId]_vars

\* C27, amended: after a successful enumeration devices is set to exactly its
\* video-input entries in host order; a standalone getDevices selects the
\* first entry when no device (or the empty id) was selected in the render it
\* was called in and the result is non-empty, else it leaves the selection,
\* and a failed one leaves devices and selectedDeviceId as set; inside a
\* stream acquisition the selection becomes the device id the stream's video
\* track reports, whether the enumeration succeeded or failed, and a failed
\* enumeration leaves devices as set.
C27_AmendedGetDevices ==
  [][~disposed =>
       /\ \A list \in EnumResults, k \in EnumCallIds :
            GetDevicesResolve(k, list)
              => /\ pending'.devices = VideoOnly(list)
                 /\ pending'.selectedDeviceId =
                      IF enumCalls[k] /\ VideoOnly(list) # << >>
                      THEN VideoOnly(list)[1].deviceId
                      ELSE pending.selectedDeviceId
       /\ \A list \in EnumResults, i \in CallIds :
            EnumResolve(i, list)
              => /\ pending'.devices = VideoOnly(list)
                 /\ pending'.selectedDeviceId = calls[i].deviceId
       /\ \A k \in EnumCallIds :
            GetDevicesReject(k)
              => /\ pending'.devices = pending.devices
                 /\ pending'.selectedDeviceId = pending.selectedDeviceId
       /\ \A i \in CallIds :
            EnumReject(i)
              => /\ pending'.devices = pending.devices
                 /\ pending'.selectedDeviceId = calls[i].deviceId]_vars

\* A first stream acquisition on device B stored the two video inputs of a
\* mixed enumeration, in host order, and selected B, not the first entry.
C27_Witness ==
  /\ ~disposed
  /\ calls = << >>
  /\ Len(streams) = 1
  /\ isStreaming
  /\ devices = << VideoInput("A", LabelFront), VideoInput("B", LabelBack) >>
  /\ selectedDeviceId = "B"

=============================================================================
